---- MODULE Spec2Model ----
(***************************************************************************)
(* A model of the validated-json library (ValidatedJson.h/.cpp): a JSON    *)
(* document is bound, key by key, to the members of a schema type; each    *)
(* accessor (Required/Optional) extracts a typed value with ParseValue and *)
(* returns a ValidatedJsonField on which constraints are chained.          *)
(*                                                                         *)
(* Conventions.                                                            *)
(*  - A C++ double is represented by an integer number of halves (the      *)
(*    value 10.5 is 21); a C++ int by itself.  Json reals likewise.        *)
(*  - A call returns either Returned(value, fx) or Thrown(exception, fx);  *)
(*    fx is the sequence of externally observable effects of the call      *)
(*    (lines written to std::cout, filesystem probes), in program order.   *)
(*  - All exceptions of the library are std::runtime_error; the field      *)
(*    `what` is the message.  The fields `kind`, `key` and `source` record *)
(*    the throw statement and its arguments.                               *)
(***************************************************************************)
EXTENDS Integers, Sequences, FiniteSets, TLC

VARIABLES
  files,    \* the filesystem: the set of paths that exist
  schema,   \* the schema type the program constructs
  pc,       \* "start", "loaded", "member", "chain", "done", "failed"
  data,     \* the JsonData temporary (DocumentSource), or NoValue
  self,     \* the ValidatedJson base of the object under construction
  idx,      \* index of the member being initialised
  step,     \* index of the next constraint of that member's chain
  cur,      \* the ValidatedJsonField temporary of the member, or NoValue
  members,  \* the members initialised so far: key -> value
  err,      \* the exception delivered to the caller, or NoValue
  fx,       \* the externally observable effects so far
  live      \* the objects whose lifetime has begun and not ended:
            \* "data" (the JsonData temporary), "json" (the schema object)

vars ==
  <<files, schema, pc, data, self, idx, step, cur, members, err, fx, live>>

NoValue == [none |-> TRUE]

(***************************************************************************)
(* Json::Value (jsoncpp).                                                  *)
(***************************************************************************)
JNull == [t |-> "null"]

JBool(b) == [t |-> "bool", b |-> b]

JInt(i) == [t |-> "int", i |-> i]

JReal(h) == [t |-> "real", h |-> h]

JString(s) == [t |-> "string", s |-> s]

JArray(a) == [t |-> "array", a |-> a]

JObject(o) == [t |-> "object", o |-> o]

\* Json::Value::minInt/maxInt bound the C++ int; a Json integer (Int64) may
\* lie outside.  The width is scaled from 32 to 16 bits: the model checker's
\* integers are 32 bits wide and must also hold the wider Json integers.
minInt == -(2^15)

maxInt == 2^15 - 1

isString(value) == value.t = "string"

isInt(value) ==
  CASE value.t = "int"  -> value.i >= minInt /\ value.i <= maxInt
    [] value.t = "real" -> /\ value.h >= 2 * minInt
                           /\ value.h <= 2 * maxInt
                           /\ value.h % 2 = 0
    [] OTHER -> FALSE

\* Faulty variant: an integer node is not taken for a double.
isDoubleRealOnly(value) == value.t = "real"

isDouble(value) == value.t \in {"int", "real"}

isBool(value) == value.t = "bool"

isObject(value) == value.t = "object"

isArray(value) == value.t = "array"

asString(value) == value.s

asInt(value) == IF value.t = "int" THEN value.i ELSE value.h \div 2

asDouble(value) == IF value.t = "int" THEN 2 * value.i ELSE value.h

asBool(value) == value.b

\* Json::Value::isMember is defined on objects and on null only.
isMemberDefined(root) == root.t \in {"object", "null"}

\* Faulty variant: a key holding null counts as absent.
isMemberNonNull(root, key) ==
  root.t = "object" /\ key \in DOMAIN root.o /\ root.o[key].t # "null"

isMember(root, key) == root.t = "object" /\ key \in DOMAIN root.o

\* const operator[]: only evaluated after isMember succeeded.
Index(root, key) == root.o[key]

(***************************************************************************)
(* std::to_string for int and for double ("%f": six decimals).             *)
(***************************************************************************)
DigitChars == <<"0", "1", "2", "3", "4", "5", "6", "7", "8", "9">>

RECURSIVE Digits(_)
Digits(n) ==
  IF n < 10 THEN DigitChars[n + 1]
  ELSE Digits(n \div 10) \o DigitChars[(n % 10) + 1]

IntToString(n) == IF n < 0 THEN "-" \o Digits(-n) ELSE Digits(n)

DoubleToString(h) ==
  LET a == IF h < 0 THEN -h ELSE h
  IN  (IF h < 0 THEN "-" ELSE "") \o Digits(a \div 2)
        \o (IF a % 2 = 0 THEN ".000000" ELSE ".500000")

to_string(T, v) ==
  IF T.k = "double" THEN DoubleToString(v) ELSE IntToString(v)

(***************************************************************************)
(* Results of calls, exceptions, effects.                                  *)
(***************************************************************************)
Returned(v, e) == [ok |-> TRUE, value |-> v, fx |-> e]

Thrown(x, e) == [ok |-> FALSE, ex |-> x, fx |-> e]

WithFxBefore(e, r) == [r EXCEPT !.fx = e \o @]

Cout(text) == [e |-> "cout", text |-> text]

Exists(path) == [e |-> "exists", path |-> path]

runtime_error(kind, key, source, what) ==
  [kind |-> kind, key |-> key, source |-> source, what |-> what]

(***************************************************************************)
(* Target types T of Required<T>/Optional<T>, and declared members.        *)
(***************************************************************************)
TString == [k |-> "string"]

TInt == [k |-> "int"]

TDouble == [k |-> "double"]

TBool == [k |-> "bool"]

TSchema(name) == [k |-> "schema", name |-> name]

TVector(E) == [k |-> "vector", e |-> E]

\* A C array E[N] filled in place (int testInt[4]).
TCArray(E, N) == [k |-> "carray", e |-> E, n |-> N]

\* The constraints of a chain, as written by a schema author.
CAboveMin(min) == [c |-> "AboveMin", min |-> min]

CBelowMax(max) == [c |-> "BelowMax", max |-> max]

CWithinRange(min, max) == [c |-> "WithinRange", min |-> min, max |-> max]

CMemberOf(permitted) == [c |-> "MemberOf", permitted |-> permitted]

CFile(prefix) == [c |-> "File", prefix |-> prefix]

\* A member initialiser: accessor call followed by its constraint chain.
Req(T, key, chain) == [acc |-> "Required", T |-> T, key |-> key, chain |-> chain]

Opt(T, key, def, chain) ==
  [acc |-> "Optional", T |-> T, key |-> key, def |-> def, chain |-> chain]

OptText(key, def, chain) ==
  [acc |-> "OptionalText", T |-> TString, key |-> key, def |-> def,
   chain |-> chain]

\* Required(key, array) / RequiredCArray(key, array, N): no chain follows.
ReqCArray(E, key, N) ==
  [acc |-> "RequiredCArray", T |-> TCArray(E, N), key |-> key, chain |-> <<>>]

(***************************************************************************)
(* JsonData: the document and its provenance label.                        *)
(***************************************************************************)
DefaultSource == "JSON data"

JsonData(root, source) == [_root |-> root, _source |-> source]

GetRoot(d) == d._root

GetSource(d) == d._source

FileSource(path) == "JSON file \"" \o path \o "\""

(***************************************************************************)
(* ValidatedJsonField<T>.                                                  *)
(***************************************************************************)
ValidatedJsonField(key, value, source, T) ==
  [_key |-> key, _value |-> value, _source |-> source, T |-> T]

ThrowValidationError(f, message) ==
  runtime_error("ValidationError", f._key, f._source,
    "In " \o f._source \o ", value for key \"" \o f._key \o "\" " \o message)

AboveMin(f, min) ==
  IF f._value < min
  THEN Thrown(ThrowValidationError(f,
         "is below minimum of " \o to_string(f.T, min)), <<>>)
  ELSE Returned(f, <<>>)

\* Faulty variant: the maximum itself is rejected.
BelowMaxExclusive(f, max) ==
  IF f._value >= max
  THEN Thrown(ThrowValidationError(f,
         "is above maximum of " \o to_string(f.T, max)), <<>>)
  ELSE Returned(f, <<>>)

BelowMax(f, max) ==
  IF f._value > max
  THEN Thrown(ThrowValidationError(f,
         "is above maximum of " \o to_string(f.T, max)), <<>>)
  ELSE Returned(f, <<>>)

\* Faulty variant: the bounds themselves are rejected.
WithinRangeExclusive(f, min, max) ==
  IF f._value <= min \/ f._value >= max
  THEN Thrown(ThrowValidationError(f,
         "is outside range " \o to_string(f.T, min) \o " to "
           \o to_string(f.T, max)), <<>>)
  ELSE Returned(f, <<>>)

WithinRange(f, min, max) ==
  IF f._value < min \/ f._value > max
  THEN Thrown(ThrowValidationError(f,
         "is outside range " \o to_string(f.T, min) \o " to "
           \o to_string(f.T, max)), <<>>)
  ELSE Returned(f, <<>>)

RECURSIVE PermittedList(_, _, _)
PermittedList(T, permitted, i) ==
  IF i > Len(permitted) THEN ""
  ELSE " " \o to_string(T, permitted[i]) \o PermittedList(T, permitted, i + 1)

\* Faulty variant: the last permitted value is never compared.
MemberOfOffByOne(f, permitted) ==
  IF \E i \in 1..(Len(permitted) - 1) : f._value = permitted[i]
  THEN Returned(f, <<>>)
  ELSE Thrown(ThrowValidationError(f,
         "must be one of:" \o PermittedList(f.T, permitted, 1)), <<>>)

MemberOf(f, permitted) ==
  IF \E i \in 1..Len(permitted) : f._value = permitted[i]
  THEN Returned(f, <<>>)
  ELSE Thrown(ThrowValidationError(f,
         "must be one of:" \o PermittedList(f.T, permitted, 1)), <<>>)

\* std::filesystem::path::operator/ on the strings of the model.
AbsolutePaths == {"/abs.json"}

SeparatorEnded == {"dir/"}

\* Faulty variant: the prefix and the value are concatenated without a separator.
PathConcat(prefix, value) == prefix \o value

PathJoin(prefix, value) ==
  IF value \in AbsolutePaths THEN value
  ELSE IF prefix = "" \/ prefix \in SeparatorEnded THEN prefix \o value
  ELSE prefix \o "/" \o value

File(f, prefix) ==
  LET path == PathJoin(prefix, f._value)
  IN  IF path \notin files
      THEN Thrown(runtime_error("ValidationError", f._key, f._source,
             "In " \o f._source \o ", filename value for key \"" \o f._key
               \o "\" does not exist: " \o path), <<Exists(path)>>)
      ELSE Returned(f, <<Exists(path)>>)

\* One constraint of a chain applied to the field temporary.
Constrain(f, c) ==
  CASE c.c = "AboveMin"    -> AboveMin(f, c.min)
    [] c.c = "BelowMax"    -> BelowMax(f, c.max)
    [] c.c = "WithinRange" -> WithinRange(f, c.min, c.max)
    [] c.c = "MemberOf"    -> MemberOf(f, c.permitted)
    [] c.c = "File"        -> File(f, c.prefix)

\* operator T()
Convert(f) == f._value

(***************************************************************************)
(* The schema types of the repository (tests and MyData.h), and a few      *)
(* further instances of the Required<T>/Optional<T> templates.  Members    *)
(* are listed in the order C++ initialises them (declaration order).       *)
(***************************************************************************)
KeyPresenceRequired == <<Req(TInt, "testInt", <<>>)>>

KeyPresenceOptional == <<Opt(TInt, "testInt", 0, <<>>)>>

ScalarTypes ==
  <<Req(TString, "testString", <<>>), Req(TInt, "testInt", <<>>),
    Req(TDouble, "testDouble", <<>>), Req(TBool, "testBool", <<>>)>>

NestedData == <<Req(TInt, "age", <<>>)>>

NestedParent == <<Req(TSchema("NestedData"), "nested", <<>>)>>

VectorValues == <<Req(TVector(TInt), "values", <<>>)>>

TypeString == <<Req(TString, "testString", <<>>)>>

TypeDouble == <<Req(TDouble, "testDouble", <<>>)>>

TypeBool == <<Req(TBool, "testBool", <<>>)>>

EmptyNested == <<>>

EmptyNestedParent == <<Req(TSchema("EmptyNested"), "nested", <<>>)>>

ValidationMin == <<Req(TInt, "testInt", <<CAboveMin(10)>>)>>

ValidationMax == <<Req(TInt, "testInt", <<CBelowMax(10)>>)>>

ValidationRange == <<Req(TInt, "testInt", <<CWithinRange(10, 20)>>)>>

ValidationMemberOf == <<Req(TInt, "testValue", <<CMemberOf(<<1, 2, 3>>)>>)>>

ValidationFile == <<Req(TString, "file", <<CFile("")>>)>>

MyData2 == <<Req(TInt, "age", <<CBelowMax(18)>>)>>

\* Written _name, _description, _nestedData, _values; the members are
\* declared, hence initialised, _name, _description, _values, _nestedData.
MyData ==
  <<Opt(TString, "name", "No name provided", <<>>),
    Req(TString, "description", <<>>),
    Req(TVector(TInt), "values", <<>>),
    Req(TSchema("MyData2"), "nested", <<>>)>>

\* Further instances of the templates.
People == <<Req(TVector(TSchema("MyData2")), "people", <<>>)>>

FilePrefix == <<Req(TString, "file", <<CFile("dir")>>)>>

DoubleRange == <<Req(TDouble, "testDouble", <<CWithinRange(3, 6)>>)>>

OptionalMin == <<Opt(TInt, "testInt", 0, <<CAboveMin(10), CBelowMax(20)>>)>>

OptionalText == <<OptText("name", "anon", <<>>)>>

OptionalRange == <<Opt(TInt, "testInt", 15, <<CWithinRange(10, 20)>>)>>

OptionalMemberOf == <<Opt(TInt, "testValue", 4, <<CMemberOf(<<1, 2, 3>>)>>)>>

EmptyMemberOf == <<Req(TInt, "testValue", <<CMemberOf(<<>>)>>)>>

\* Optional members of the remaining target kinds.
OptionalDouble == <<Opt(TDouble, "testDouble", 3, <<>>)>>

OptionalBool == <<Opt(TBool, "testBool", FALSE, <<>>)>>

OptionalVector == <<Opt(TVector(TInt), "values", <<>>, <<>>)>>

OptionalNested ==
  <<Opt(TSchema("EmptyNested"), "nested",
        [schema |-> "EmptyNested", _root |-> JObject(<<>>),
         _source |-> "JSON data", _sourceLive |-> TRUE, m |-> <<>>], <<>>)>>

\* A sequence of sequences.
Matrix == <<Req(TVector(TVector(TInt)), "rows", <<>>)>>

\* A constrained member followed by a member probing the filesystem.
Sequenced ==
  <<Req(TInt, "testInt", <<CAboveMin(10)>>),
    Req(TString, "file", <<CFile("")>>)>>

\* int testInt[4]; double testDouble[4]; bool testBool[4];
CArrays ==
  <<ReqCArray(TInt, "testInt", 4), ReqCArray(TDouble, "testDouble", 4),
    ReqCArray(TBool, "testBool", 4)>>

\* A C array of nested schema objects, as PeopleStruct::people, of capacity 2.
Roster == <<ReqCArray(TSchema("MyData2"), "people", 2)>>

Schema(name) ==
  CASE name = "KeyPresenceRequired" -> KeyPresenceRequired
    [] name = "KeyPresenceOptional" -> KeyPresenceOptional
    [] name = "ScalarTypes"         -> ScalarTypes
    [] name = "NestedData"          -> NestedData
    [] name = "NestedParent"        -> NestedParent
    [] name = "VectorValues"        -> VectorValues
    [] name = "TypeString"          -> TypeString
    [] name = "TypeDouble"          -> TypeDouble
    [] name = "TypeBool"            -> TypeBool
    [] name = "EmptyNested"         -> EmptyNested
    [] name = "EmptyNestedParent"   -> EmptyNestedParent
    [] name = "ValidationMin"       -> ValidationMin
    [] name = "ValidationMax"       -> ValidationMax
    [] name = "ValidationRange"     -> ValidationRange
    [] name = "ValidationMemberOf"  -> ValidationMemberOf
    [] name = "ValidationFile"      -> ValidationFile
    [] name = "MyData2"             -> MyData2
    [] name = "MyData"              -> MyData
    [] name = "People"              -> People
    [] name = "FilePrefix"          -> FilePrefix
    [] name = "DoubleRange"         -> DoubleRange
    [] name = "OptionalMin"         -> OptionalMin
    [] name = "OptionalText"        -> OptionalText
    [] name = "OptionalRange"       -> OptionalRange
    [] name = "OptionalMemberOf"    -> OptionalMemberOf
    [] name = "EmptyMemberOf"       -> EmptyMemberOf
    [] name = "Matrix"              -> Matrix
    [] name = "OptionalDouble"      -> OptionalDouble
    [] name = "OptionalBool"        -> OptionalBool
    [] name = "OptionalVector"      -> OptionalVector
    [] name = "OptionalNested"      -> OptionalNested
    [] name = "Sequenced"           -> Sequenced
    [] name = "CArrays"             -> CArrays
    [] name = "Roster"              -> Roster

SchemaNames ==
  {"KeyPresenceRequired", "KeyPresenceOptional", "ScalarTypes", "NestedData",
   "NestedParent", "VectorValues", "TypeString", "TypeDouble", "TypeBool",
   "EmptyNested", "EmptyNestedParent", "ValidationMin", "ValidationMax",
   "ValidationRange", "ValidationMemberOf", "ValidationFile", "MyData2",
   "MyData", "People", "FilePrefix", "DoubleRange", "OptionalMin",
   "OptionalText", "EmptyMemberOf", "Sequenced", "CArrays",
   "Roster", "OptionalRange", "OptionalMemberOf", "Matrix",
   "OptionalDouble", "OptionalBool", "OptionalVector", "OptionalNested"}

(***************************************************************************)
(* ValidatedJson: the binder.                                              *)
(***************************************************************************)
\* ValidatedJson::ValidatedJson(const JsonData&)
ValidatedJson(d) == [_root |-> GetRoot(d), _source |-> GetSource(d)]

\* Faulty variant: the message does not name the source.
ThrowParsingErrorNoSource(key, description, source) ==
  runtime_error("TypeError", key, source,
    "Expected " \o description \o " for key \"" \o key \o "\"")

ThrowParsingError(key, description, source) ==
  runtime_error("TypeError", key, source,
    "In " \o source \o ", expected " \o description \o " for key \"" \o key
      \o "\"")

PresenceError(key) ==
  runtime_error("PresenceError", key, "",
    "Required key \"" \o key \o "\" not found")

\* Json::Value::isMember on a node that is neither an object nor null.
LogicError(key) ==
  [kind |-> "LogicError", key |-> key, source |-> "",
   what |-> "in Json::Value::find(begin, end): requires objectValue or nullValue"]

\* Faulty variant: the element is inserted at the front.
emplace_front(result, x) == <<x>> \o result

emplace_back(result, x) == Append(result, x)

\* JsonData(value) in ParseValue's nested branch: the label parameter of
\* JsonData(const Json::Value, std::string source = "JSON data") is defaulted,
\* whatever the label `source` of the enclosing binder.
NestedJsonData(value, source) == JsonData(value, DefaultSource)

RECURSIVE ParseValue(_, _, _, _), ParseElements(_, _, _, _, _, _, _)
RECURSIVE ParseElementsOwnKey(_, _, _, _, _, _, _)
RECURSIVE Construct(_, _), InitMembers(_, _, _, _, _)

\* return T(JsonData(value)): the JsonData temporary, to whose label the
\* _source of the returned object refers, is destroyed when the return
\* statement ends.
EndOfReturn(r) ==
  IF r.ok THEN [r EXCEPT !.value._sourceLive = FALSE] ELSE r

ParseValue(T, key, value, source) ==
  CASE T.k = "string" ->
         IF ~isString(value)
         THEN Thrown(ThrowParsingError(key, "a string value", source), <<>>)
         ELSE Returned(asString(value), <<>>)
    [] T.k = "int" ->
         IF ~isInt(value)
         THEN Thrown(ThrowParsingError(key, "an integer value", source), <<>>)
         ELSE Returned(asInt(value), <<>>)
    [] T.k = "double" ->
         IF ~isDouble(value)
         THEN Thrown(ThrowParsingError(key, "a double value", source), <<>>)
         ELSE Returned(asDouble(value), <<>>)
    [] T.k = "bool" ->
         IF ~isBool(value)
         THEN Thrown(ThrowParsingError(key, "a boolean value", source), <<>>)
         ELSE Returned(asBool(value), <<>>)
    [] T.k = "schema" ->
         IF ~isObject(value)
         THEN Thrown(ThrowParsingError(key, "a JSON object", source), <<>>)
         ELSE EndOfReturn(Construct(T.name, NestedJsonData(value, source)))
    [] T.k = "vector" ->
         IF ~isArray(value)
         THEN Thrown(ThrowParsingError(key, "a JSON array", source),
                     <<Cout("vector")>>)
         ELSE ParseElements(T.e, key, value.a, source, 1, <<>>,
                            <<Cout("vector")>>)

\* Faulty variant: an element is decoded under a key of its own.
ParseElementsOwnKey(E, key, elements, source, i, result, e) ==
  IF i > Len(elements) THEN Returned(result, e)
  ELSE LET r == ParseValue(E, "element", elements[i], source)
       IN  IF ~r.ok THEN WithFxBefore(e, r)
           ELSE ParseElementsOwnKey(E, key, elements, source, i + 1,
                                    emplace_back(result, r.value), e \o r.fx)

\* Faulty variant: the loop stops before the last element.
ParseElementsSkipLast(E, key, elements, source, i, result, e) ==
  IF i >= Len(elements) THEN Returned(result, e)
  ELSE LET r == ParseValue(E, key, elements[i], source)
       IN  IF ~r.ok THEN WithFxBefore(e, r)
           ELSE ParseElements(E, key, elements, source, i + 1,
                              emplace_back(result, r.value), e \o r.fx)

\* for (const auto& element : value) result.emplace_back(ParseValue<E>(...))
ParseElements(E, key, elements, source, i, result, e) ==
  IF i > Len(elements) THEN Returned(result, e)
  ELSE LET r == ParseValue(E, key, elements[i], source)
       IN  IF ~r.ok THEN WithFxBefore(e, r)
           ELSE ParseElements(E, key, elements, source, i + 1,
                              emplace_back(result, r.value), e \o r.fx)

Required(this, T, key) ==
  IF ~isMemberDefined(this._root) THEN Thrown(LogicError(key), <<>>)
  ELSE IF ~isMember(this._root, key) THEN Thrown(PresenceError(key), <<>>)
  ELSE LET p == ParseValue(T, key, Index(this._root, key), this._source)
       IN  IF ~p.ok THEN p
           ELSE Returned(ValidatedJsonField(key, p.value, this._source, T),
                         p.fx)

\* Faulty variant: the default is returned whether or not the key is present.
OptionalAlwaysDefault(this, T, key, defaultValue) ==
  IF ~isMemberDefined(this._root) THEN Thrown(LogicError(key), <<>>)
  ELSE Returned(ValidatedJsonField(key, defaultValue, this._source, T), <<>>)

\* Faulty variant: a key holding null is answered with the default.
OptionalNullDefault(this, T, key, defaultValue) ==
  IF ~isMemberDefined(this._root) THEN Thrown(LogicError(key), <<>>)
  ELSE IF ~isMember(this._root, key) \/ Index(this._root, key) = JNull
  THEN Returned(ValidatedJsonField(key, defaultValue, this._source, T), <<>>)
  ELSE LET p == ParseValue(T, key, Index(this._root, key), this._source)
       IN  IF ~p.ok THEN p
           ELSE Returned(ValidatedJsonField(key, p.value, this._source, T),
                         p.fx)

\* Faulty variant: an ill-typed value is replaced by the default.
OptionalLenient(this, T, key, defaultValue) ==
  IF ~isMemberDefined(this._root) THEN Thrown(LogicError(key), <<>>)
  ELSE IF ~isMember(this._root, key)
  THEN Returned(ValidatedJsonField(key, defaultValue, this._source, T), <<>>)
  ELSE LET p == ParseValue(T, key, Index(this._root, key), this._source)
       IN  IF ~p.ok
           THEN Returned(ValidatedJsonField(key, defaultValue, this._source,
                                            T), p.fx)
           ELSE Returned(ValidatedJsonField(key, p.value, this._source, T),
                         p.fx)

Optional(this, T, key, defaultValue) ==
  IF ~isMemberDefined(this._root) THEN Thrown(LogicError(key), <<>>)
  ELSE IF ~isMember(this._root, key)
  THEN Returned(ValidatedJsonField(key, defaultValue, this._source, T), <<>>)
  ELSE LET p == ParseValue(T, key, Index(this._root, key), this._source)
       IN  IF ~p.ok THEN p
           ELSE Returned(ValidatedJsonField(key, p.value, this._source, T),
                         p.fx)

\* ValidatedJson::Optional(const std::string&, const char*)
OptionalCStr(this, key, defaultValue) ==
  Optional(this, TString, key, defaultValue)

(***************************************************************************)
(* Decoding into a C array of capacity N.  The header of the repository    *)
(* declares no such accessor (the tests and MyData.h call it); it is       *)
(* written here from the dispatch table of the specification: the node     *)
(* must be an array, an array longer than N is a ValidationError, and the  *)
(* elements are decoded as those of a sequence, in array order.  The       *)
(* specification fixes the kind of the capacity error, not its text.       *)
(***************************************************************************)
CapacityError(key, source, N) ==
  runtime_error("ValidationError", key, source,
    "In " \o source \o ", value for key \"" \o key
      \o "\" has more than " \o IntToString(N) \o " elements")

RequiredCArray(this, E, key, N) ==
  IF ~isMemberDefined(this._root) THEN Thrown(LogicError(key), <<>>)
  ELSE IF ~isMember(this._root, key) THEN Thrown(PresenceError(key), <<>>)
  ELSE LET value == Index(this._root, key)
       IN  IF ~isArray(value)
           THEN Thrown(ThrowParsingError(key, "a JSON array", this._source),
                       <<>>)
           ELSE IF Len(value.a) > N
           THEN Thrown(CapacityError(key, this._source, N), <<>>)
           ELSE LET p == ParseElements(E, key, value.a, this._source, 1,
                                       <<>>, <<>>)
                IN  IF ~p.ok THEN p
                    ELSE Returned(ValidatedJsonField(key, p.value,
                                    this._source, TCArray(E, N)), p.fx)

Accessor(this, d) ==
  CASE d.acc = "Required"       -> Required(this, d.T, d.key)
    [] d.acc = "Optional"       -> Optional(this, d.T, d.key, d.def)
    [] d.acc = "OptionalText"   -> OptionalCStr(this, d.key, d.def)
    [] d.acc = "RequiredCArray" -> RequiredCArray(this, d.T.e, d.key, d.T.n)

RECURSIVE Chain(_, _, _, _)
Chain(f, chain, i, e) ==
  IF i > Len(chain) THEN Returned(Convert(f), e)
  ELSE LET r == Constrain(f, chain[i])
       IN  IF ~r.ok THEN WithFxBefore(e, r)
           ELSE Chain(r.value, chain, i + 1, e \o r.fx)

\* One member initialiser: accessor, chained constraints, operator T().
Member(this, d) ==
  LET a == Accessor(this, d)
  IN  IF ~a.ok THEN a ELSE Chain(a.value, d.chain, 1, a.fx)

\* A constructed schema object: its ValidatedJson base and its members.
\* _source is a reference (const std::string&): _sourceLive tells whether
\* the string it refers to still exists.
Object(name, this, m) ==
  [schema |-> name, _root |-> this._root, _source |-> this._source,
   _sourceLive |-> TRUE, m |-> m]

InitMembers(name, this, i, m, e) ==
  IF i > Len(Schema(name)) THEN Returned(Object(name, this, m), e)
  ELSE LET d == Schema(name)[i]
           r == Member(this, d)
       IN  IF ~r.ok THEN WithFxBefore(e, r)
           ELSE InitMembers(name, this, i + 1, (d.key :> r.value) @@ m,
                            e \o r.fx)

\* T(JsonData(value)): the constructor of a schema type.
Construct(name, d) == InitMembers(name, ValidatedJson(d), 1, <<>>, <<>>)

(***************************************************************************)
(* Inputs: the documents a schema is constructed from, and the files.      *)
(***************************************************************************)
MaxArrayLen == 2

Around(b) == {b - 1, b, b + 1}

RECURSIVE Points(_, _)
Points(chain, i) ==
  IF i > Len(chain) THEN {}
  ELSE LET c == chain[i]
       IN  (CASE c.c = "AboveMin"    -> Around(c.min)
              [] c.c = "BelowMax"    -> Around(c.max)
              [] c.c = "WithinRange" -> Around(c.min) \cup Around(c.max)
              [] c.c = "MemberOf"    ->
                   UNION {Around(c.permitted[j]) : j \in 1..Len(c.permitted)}
              [] OTHER -> {})
           \cup Points(chain, i + 1)

NumPoints(d) == IF Points(d.chain, 1) = {} THEN {42} ELSE Points(d.chain, 1)

Least(S) == CHOOSE x \in S : \A y \in S : x <= y

Greatest(S) == CHOOSE x \in S : \A y \in S : x >= y

\* One node of every JSON runtime type.
TypeReps ==
  {JNull, JBool(TRUE), JInt(11), JReal(21), JString("test"), JArray(<<>>),
   JObject(<<>>)}

StringPool(d) ==
  IF \E i \in 1..Len(d.chain) : d.chain[i].c = "File"
  THEN {JString("test.json"), JString("non_existent_file.txt"),
        JString("/abs.json"), JString("")}
  ELSE {JString("test"), JString("")}

RECURSIVE Pool(_, _), Objects(_, _, _), ElementPool(_)

\* The j-th element of the tests' arrays: 1, 2, ...; 1.0, 2.0, ...; true,
\* false, ...
Sample(E, j) ==
  CASE E.k = "int"    -> JInt(j)
    [] E.k = "double" -> JReal(2 * j)
    [] E.k = "bool"   -> JBool(j % 2 = 1)

Samples(E, n) == JArray([j \in 1..n |-> Sample(E, j)])

Arrays(elements) ==
  {JArray(a) : a \in UNION {[1..n -> elements] : n \in 0..MaxArrayLen}}

ElementPool(E) ==
  CASE E.k = "int"    -> {JInt(1), JInt(2), JString("x")}
    [] E.k = "schema" ->
         {JObject(o) : o \in Objects(Schema(E.name), 1, TRUE)} \cup {JInt(1)}
    [] E.k = "vector" ->
         {JArray(<<>>), JArray(<<JInt(1), JInt(2)>>),
          JArray(<<JInt(1), JString("x")>>), JString("x")}
    [] OTHER -> Pool([T |-> E, chain |-> <<>>], TRUE)

\* The nodes a document may hold under the key of member d.  A schema with
\* several members takes the narrow pool of each.
Pool(d, narrow) ==
  CASE d.T.k = "string" ->
         IF narrow THEN {JString("test"), JInt(11)}
         ELSE StringPool(d) \cup TypeReps
    [] d.T.k = "int" ->
         IF narrow
         THEN {JInt(Least(NumPoints(d))), JInt(Greatest(NumPoints(d))),
               JString("test")}
         ELSE {JInt(v) : v \in NumPoints(d)}
              \cup {JReal(2 * Least(NumPoints(d))), JInt(maxInt + 1),
                    JReal(2 * (maxInt + 1))}
              \cup TypeReps
    [] d.T.k = "double" ->
         IF narrow THEN {JReal(7), JString("test")}
         ELSE {JReal(v) : v \in NumPoints(d)}
              \cup {JInt(Least(NumPoints(d)) \div 2)} \cup TypeReps
    [] d.T.k = "bool" ->
         IF narrow THEN {JBool(TRUE), JInt(11)}
         ELSE {JBool(TRUE), JBool(FALSE)} \cup TypeReps
    [] d.T.k = "schema" ->
         {JObject(o) : o \in Objects(Schema(d.T.name), 1, narrow)}
           \cup (IF narrow THEN {JString("test")} ELSE TypeReps)
    [] d.T.k = "vector" ->
         Arrays(ElementPool(d.T.e))
           \cup (IF narrow THEN {JString("test")} ELSE TypeReps)
    [] d.T.k = "carray" ->
         IF narrow
         THEN {Samples(d.T.e, 0), Samples(d.T.e, d.T.n),
               Samples(d.T.e, d.T.n + 1),
               JArray(Append(Samples(d.T.e, 1).a, JString("x"))),
               JArray(Append(Samples(d.T.e, d.T.n).a, JString("x"))),
               JString("test")}
         ELSE {JArray(a) : a \in UNION {[1..n -> ElementPool(d.T.e)] :
                                          n \in 0..(d.T.n + 1)}}
              \cup TypeReps

\* The objects over the keys of members i.. of a schema: each key is absent
\* or holds a node of its pool.
Objects(decls, i, narrow) ==
  IF i > Len(decls) THEN {<<>>}
  ELSE LET rest == Objects(decls, i + 1, narrow)
       IN  rest \cup {(decls[i].key :> v) @@ o :
                        v \in Pool(decls[i], narrow), o \in rest}

Documents(name) ==
  {JObject(o) : o \in Objects(Schema(name), 1, Len(Schema(name)) > 1)}
    \cup {JNull, JArray(<<>>)}

\* The outcome of Json::parseFromStream on a text: the tree and the errors.
SyntaxError == "* Line 1, Column 1\n  Syntax error: value, object or array expected.\n"

Texts(name) ==
  {[root |-> doc, errors |-> ""] : doc \in Documents(name)}
    \cup {[root |-> JNull, errors |-> SyntaxError]}

Paths == {"test.json", "not_found.json"}

\* Two filesystems: the tests' directory (test.json only), and one that also
\* holds a directory dir with a file, and an absolute path.
FsChoices ==
  {{"test.json"}, {"test.json", "dir/", "dir/test.json", "/abs.json"}}

(***************************************************************************)
(* JsonData constructors (ValidatedJson.cpp).                              *)
(***************************************************************************)
\* JsonData::JsonData(std::istream&&, std::string source)
JsonDataFromStream(good, text, source) ==
  IF ~good
  THEN Thrown(runtime_error("StreamError", "", source,
                "Invalid input stream for JSON data."), <<>>)
  ELSE IF text.errors # ""
  THEN Thrown(runtime_error("ParseError", "", source,
                "JSON parsing error: " \o text.errors), <<>>)
  ELSE Returned(JsonData(text.root, source), <<>>)

\* Faulty variant: the stream is returned without testing is_open().
OpenUnchecked(path) == Returned(path, <<>>)

\* JsonFile::Open
Open(path) ==
  IF path \notin files
  THEN Thrown(runtime_error("IOError", "", "",
                "Could not open JSON file: " \o path), <<>>)
  ELSE Returned(path, <<>>)

(***************************************************************************)
(* The program: a document is loaded and a schema object constructed from  *)
(* it, one member initialiser after another.                               *)
(***************************************************************************)
Init ==
  /\ files \in FsChoices
  /\ schema \in SchemaNames
  /\ pc = "start"
  /\ data = NoValue
  /\ self = NoValue
  /\ idx = 0
  /\ step = 0
  /\ cur = NoValue
  /\ members = <<>>
  /\ err = NoValue
  /\ fx = <<>>
  /\ live = {}

\* Faulty variant: the members built before the exception stay observable.
RaiseKeepMembers(r) ==
  /\ pc' = "failed"
  /\ err' = r.ex
  /\ members' = members
  /\ cur' = NoValue
  /\ fx' = fx \o r.fx
  /\ live' = {}

\* An exception leaves the constructor: the members built so far, the
\* field temporary, the object under construction and the JsonData
\* temporary are destroyed, the caller holds the exception.
Raise(r) ==
  /\ pc' = "failed"
  /\ err' = r.ex
  /\ members' = <<>>
  /\ cur' = NoValue
  /\ fx' = fx \o r.fx
  /\ live' = {}

Loaded(r) ==
  IF r.ok
  THEN /\ data' = r.value
       /\ pc' = "loaded"
       /\ live' = {"data"}
       /\ UNCHANGED <<err, members, cur, fx>>
  ELSE /\ Raise(r)
       /\ UNCHANGED data

\* JsonString::JsonString(const std::string&)
JsonString ==
  /\ pc = "start"
  /\ \E text \in Texts(schema) :
       Loaded(JsonDataFromStream(TRUE, text, DefaultSource))
  /\ UNCHANGED <<files, schema, self, idx, step>>

\* JsonFile::JsonFile(const std::string& path)
JsonFile ==
  /\ pc = "start"
  /\ \E path \in Paths :
       LET o == Open(path)
       IN  IF ~o.ok THEN Loaded(o)
           ELSE \E text \in Texts(schema) :
                  Loaded(JsonDataFromStream(TRUE, text, FileSource(path)))
  /\ UNCHANGED <<files, schema, self, idx, step>>

\* The base-class initialiser ValidatedJson(data) of the schema type.
ConstructBase ==
  /\ pc = "loaded"
  /\ self' = ValidatedJson(data)
  /\ idx' = 1
  /\ pc' = "member"
  /\ live' = live \cup {"json"}
  /\ UNCHANGED <<files, schema, data, step, cur, members, err, fx>>

Decl == Schema(schema)[idx]

AtMember(acc) ==
  /\ pc = "member"
  /\ idx <= Len(Schema(schema))
  /\ Decl.acc = acc

\* Faulty variant: the exception is recorded and the next member initialised.
AccessedContinue(r) ==
  /\ IF r.ok
     THEN /\ cur' = r.value
          /\ step' = 1
          /\ pc' = "chain"
          /\ idx' = idx
          /\ fx' = fx \o r.fx
          /\ UNCHANGED <<err, members, live>>
     ELSE /\ err' = r.ex
          /\ idx' = idx + 1
          /\ fx' = fx \o r.fx
          /\ UNCHANGED <<pc, step, cur, members, live>>
  /\ UNCHANGED <<files, schema, data, self>>

\* The accessor returned r: the field temporary now awaits its chain.
Accessed(r) ==
  /\ IF r.ok
     THEN /\ cur' = r.value
          /\ step' = 1
          /\ pc' = "chain"
          /\ fx' = fx \o r.fx
          /\ UNCHANGED <<err, members, live>>
     ELSE /\ Raise(r)
          /\ UNCHANGED step
  /\ UNCHANGED <<files, schema, data, self, idx>>

CallRequired ==
  /\ AtMember("Required")
  /\ Accessed(Required(self, Decl.T, Decl.key))

CallOptional ==
  /\ AtMember("Optional")
  /\ Accessed(Optional(self, Decl.T, Decl.key, Decl.def))

CallOptionalCStr ==
  /\ AtMember("OptionalText")
  /\ Accessed(OptionalCStr(self, Decl.key, Decl.def))

CallRequiredCArray ==
  /\ AtMember("RequiredCArray")
  /\ Accessed(RequiredCArray(self, Decl.T.e, Decl.key, Decl.T.n))

AtConstraint(c) ==
  /\ pc = "chain"
  /\ step <= Len(Decl.chain)
  /\ Decl.chain[step].c = c

Arg == Decl.chain[step]

\* Faulty variant: the outcome of a constraint on a default is ignored.
ConstrainedDefaultBypass(r) ==
  /\ IF r.ok \/ ~isMember(self._root, Schema(schema)[idx].key)
     THEN /\ cur' = cur
          /\ step' = step + 1
          /\ fx' = fx \o r.fx
          /\ UNCHANGED <<pc, err, members, live>>
     ELSE /\ Raise(r)
          /\ UNCHANGED step
  /\ UNCHANGED <<files, schema, data, self, idx>>

\* The constraint returned r: the chain moves on with the returned field.
Constrained(r) ==
  /\ IF r.ok
     THEN /\ cur' = r.value
          /\ step' = step + 1
          /\ fx' = fx \o r.fx
          /\ UNCHANGED <<pc, err, members, live>>
     ELSE /\ Raise(r)
          /\ UNCHANGED step
  /\ UNCHANGED <<files, schema, data, self, idx>>

CallAboveMin ==
  /\ AtConstraint("AboveMin")
  /\ Constrained(AboveMin(cur, Arg.min))

CallBelowMax ==
  /\ AtConstraint("BelowMax")
  /\ Constrained(BelowMax(cur, Arg.max))

CallWithinRange ==
  /\ AtConstraint("WithinRange")
  /\ Constrained(WithinRange(cur, Arg.min, Arg.max))

CallMemberOf ==
  /\ AtConstraint("MemberOf")
  /\ Constrained(MemberOf(cur, Arg.permitted))

CallFile ==
  /\ AtConstraint("File")
  /\ Constrained(File(cur, Arg.prefix))

\* operator T() at the end of the chain initialises the member.
Assign ==
  /\ pc = "chain"
  /\ step > Len(Decl.chain)
  /\ members' = (Decl.key :> Convert(cur)) @@ members
  /\ cur' = NoValue
  /\ idx' = idx + 1
  /\ step' = 0
  /\ pc' = "member"
  /\ UNCHANGED <<files, schema, data, self, err, fx, live>>

\* The constructor returns and the declaration ends: the object exists,
\* the JsonData temporary it was constructed from is destroyed.
Finish ==
  /\ pc = "member"
  /\ idx > Len(Schema(schema))
  /\ pc' = "done"
  /\ live' = live \ {"data"}
  /\ UNCHANGED <<files, schema, data, self, idx, step, cur, members, err, fx>>

Next ==
  \/ JsonString
  \/ JsonFile
  \/ ConstructBase
  \/ CallRequired
  \/ CallOptional
  \/ CallOptionalCStr
  \/ CallRequiredCArray
  \/ CallAboveMin
  \/ CallBelowMax
  \/ CallWithinRange
  \/ CallMemberOf
  \/ CallFile
  \/ Assign
  \/ Finish

Spec == Init /\ [][Next]_vars

(***************************************************************************)
(* Vocabulary of the properties: what the contract says of a document,     *)
(* stated on the JSON nodes themselves.                                    *)
(***************************************************************************)
Constructing == self # NoValue

Root == self._root

Decls == Schema(schema)

DeclIdx == 1..Len(Decls)

\* The number a JSON node denotes, and the number a member holds, in halves.
NodeHalves(v) == IF v.t = "int" THEN 2 * v.i ELSE v.h

ValueHalves(T, x) == IF T.k = "int" THEN 2 * x ELSE x

IsNumber(v) == v.t \in {"int", "real"}

IntegerValued(v) == IsNumber(v) /\ NodeHalves(v) % 2 = 0

FitsInt(v) == NodeHalves(v) >= 2 * minInt /\ NodeHalves(v) <= 2 * maxInt

\* The dispatch table as the specification words it.
StatedType(T, v) ==
  CASE T.k = "string" -> v.t = "string"
    [] T.k = "int"    -> IntegerValued(v)
    [] T.k = "double" -> IsNumber(v)
    [] T.k = "bool"   -> v.t = "bool"
    [] T.k = "schema" -> v.t = "object"
    [] T.k = "vector" -> v.t = "array"
    [] T.k = "carray" -> v.t = "array"

\* The same table with the integer confined to the range of int.
ExpectedType(T, v) == StatedType(T, v) /\ (T.k = "int" => FitsInt(v))

Description(T) ==
  CASE T.k = "string" -> "a string value"
    [] T.k = "int"    -> "an integer value"
    [] T.k = "double" -> "a double value"
    [] T.k = "bool"   -> "a boolean value"
    [] T.k = "schema" -> "a JSON object"
    [] T.k = "vector" -> "a JSON array"
    [] T.k = "carray" -> "a JSON array"

\* The path std::filesystem resolves prefix / value to, case by case.
ResolvedPath(prefix, value) ==
  CASE value = "/abs.json"              -> "/abs.json"
    [] prefix = ""                      -> value
    [] prefix = "dir" /\ value = "test.json" -> "dir/test.json"
    [] prefix = "dir" /\ value = "test"  -> "dir/test"
    [] prefix = "dir" /\ value = "non_existent_file.txt"
                                        -> "dir/non_existent_file.txt"
    [] prefix = "dir" /\ value = ""     -> "dir/"

\* The member is initialised by an accessor that requires its key.
IsRequired(d) == d.acc \in {"Required", "RequiredCArray"}

\* Constraint c is satisfied by the member value x.
Satisfies(x, c) ==
  CASE c.c = "AboveMin"    -> x >= c.min
    [] c.c = "BelowMax"    -> x <= c.max
    [] c.c = "WithinRange" -> x >= c.min /\ x <= c.max
    [] c.c = "MemberOf"    -> x \in {c.permitted[j] : j \in 1..Len(c.permitted)}
    [] c.c = "File"        -> ResolvedPath(c.prefix, x) \in files

ChainSatisfied(x, chain) == \A j \in 1..Len(chain) : Satisfies(x, chain[j])

\* The typed value a well-typed scalar node stands for.
Denotes(T, v) ==
  CASE T.k = "string" -> v.s
    [] T.k = "int"    -> NodeHalves(v) \div 2
    [] T.k = "double" -> NodeHalves(v)
    [] OTHER -> v

RECURSIVE ValidObject(_, _, _), ValidValue(_, _, _), Agrees(_, _, _)

\* Every key of object o that the schema declares and o holds has a value of
\* the expected type (ranged: with the integer confined to int, else as the
\* specification words the table), every required key is held, and every
\* chained constraint is satisfied by the value it is applied to.
ValidObject(name, o, ranged) ==
  \A i \in 1..Len(Schema(name)) :
    LET d == Schema(name)[i]
    IN  IF d.key \in DOMAIN o
        THEN /\ ValidValue(d.T, o[d.key], ranged)
             /\ ChainSatisfied(Denotes(d.T, o[d.key]), d.chain)
        ELSE /\ ~IsRequired(d)
             /\ ChainSatisfied(d.def, d.chain)

ValidValue(T, v, ranged) ==
  /\ IF ranged THEN ExpectedType(T, v) ELSE StatedType(T, v)
  /\ T.k = "schema" => ValidObject(T.name, v.o, ranged)
  /\ T.k = "vector" => \A i \in 1..Len(v.a) : ValidValue(T.e, v.a[i], ranged)
  /\ T.k = "carray" =>
       /\ Len(v.a) <= T.n
       /\ \A i \in 1..Len(v.a) : ValidValue(T.e, v.a[i], ranged)

\* The member value x equals the value the node v stores.
Agrees(T, x, v) ==
  CASE T.k = "string" -> x = v.s
    [] T.k = "int"    -> ValueHalves(T, x) = NodeHalves(v)
    [] T.k = "double" -> ValueHalves(T, x) = NodeHalves(v)
    [] T.k = "bool"   -> x = v.b
    [] T.k = "schema" ->
         \A i \in 1..Len(Schema(T.name)) :
           LET d == Schema(T.name)[i]
           IN  /\ d.key \in DOMAIN x.m
               /\ IF d.key \in DOMAIN v.o
                  THEN Agrees(d.T, x.m[d.key], v.o[d.key])
                  ELSE x.m[d.key] = d.def
    [] T.k \in {"vector", "carray"} ->
         /\ Len(x) = Len(v.a)
         /\ \A i \in 1..Len(x) : Agrees(T.e, x[i], v.a[i])

\* The members initialised so far hold their source values or defaults.
MembersAgree ==
  \A i \in DeclIdx :
    LET d == Decls[i]
    IN  d.key \in DOMAIN members =>
          IF d.key \in DOMAIN Root.o
          THEN Agrees(d.T, members[d.key], Root.o[d.key])
          ELSE members[d.key] = d.def

(***************************************************************************)
(* C1.  A document whose root is an object, in which every required key is *)
(* present, every declared key that is present (required or optional)      *)
(* holds a value of the expected type (an integer within the range of      *)
(* int), and every chained constraint is satisfied, constructs: no error   *)
(* is raised, and each member equals the value stored under its key, or    *)
(* the declared default when an optional key is absent.                    *)
(***************************************************************************)
C1_ValidDocumentConstructs ==
  (Constructing /\ Root.t = "object" /\ ValidObject(schema, Root.o, TRUE))
    => /\ pc # "failed"
       /\ MembersAgree
       /\ pc = "done" => \A i \in DeclIdx : Decls[i].key \in DOMAIN members

\* C1 witness: a document with an absent optional key has been constructed.
C1_Witness ==
  /\ pc = "done"
  /\ schema = "MyData"
  /\ "name" \notin DOMAIN Root.o
  /\ members["name"] = "No name provided"
  /\ members["values"] = <<1, 2>>
  /\ members["nested"].m["age"] = 17

\* C1 as stated, for a document whose root is an object: only the required
\* keys need be present and of the expected type; the constraints are
\* satisfied by every value they are applied to.
StatedPrecondition ==
  \A i \in DeclIdx :
    LET d == Decls[i]
        held == d.key \in DOMAIN Root.o
    IN  /\ IsRequired(d) => held /\ ValidValue(d.T, Root.o[d.key], TRUE)
        /\ held /\ ValidValue(d.T, Root.o[d.key], TRUE) =>
             ChainSatisfied(Denotes(d.T, Root.o[d.key]), d.chain)
        /\ ~held /\ ~IsRequired(d) => ChainSatisfied(d.def, d.chain)

C1_AsStated ==
  (Constructing /\ Root.t = "object" /\ StatedPrecondition) => pc # "failed"

(***************************************************************************)
(* States around the accessor call of member idx.                          *)
(***************************************************************************)
\* The document holds the key of the member being initialised.
Held ==
  /\ Constructing
  /\ idx \in DeclIdx
  /\ Root.t = "object"
  /\ Decl.key \in DOMAIN Root.o

Node == Root.o[Decl.key]

\* The accessor of member idx has returned or thrown.
AccessorFailed == pc = "failed" /\ idx >= 1 /\ step = 0

AccessorDone == pc = "chain" \/ AccessorFailed

TypeErrorFor(T, key, source) ==
  [kind |-> "TypeError", key |-> key, source |-> source,
   what |-> "In " \o source \o ", expected " \o Description(T)
              \o " for key \"" \o key \o "\""]

\* Node v and everything decoded from it is of the expected type.
RECURSIVE WellTyped(_, _, _)
WellTyped(T, v, ranged) ==
  /\ IF ranged THEN ExpectedType(T, v) ELSE StatedType(T, v)
  /\ T.k = "schema" =>
       \A i \in 1..Len(Schema(T.name)) :
         LET d == Schema(T.name)[i]
         IN  d.key \in DOMAIN v.o => WellTyped(d.T, v.o[d.key], ranged)
  /\ T.k \in {"vector", "carray"} =>
       \A i \in 1..Len(v.a) : WellTyped(T.e, v.a[i], ranged)

(***************************************************************************)
(* C2.  Required<T>(key) on an object node: when the key is absent it      *)
(* throws the PresenceError 'Required key "<key>" not found' naming that   *)
(* key, whatever T; when the key is present it throws no PresenceError for *)
(* that key and the outcome is that of extracting the value stored under   *)
(* it (the Required of a nested object answers for that object's keys).    *)
(***************************************************************************)
C2_RequiredPresence ==
  [][(CallRequired /\ Root.t = "object") =>
       IF Decl.key \notin DOMAIN Root.o
       THEN /\ pc' = "failed"
            /\ err' = [kind |-> "PresenceError", key |-> Decl.key,
                       source |-> "",
                       what |-> "Required key \"" \o Decl.key
                                  \o "\" not found"]
       ELSE LET p == ParseValue(Decl.T, Decl.key, Node, self._source)
            IN  /\ (pc' = "failed" /\ err'.kind = "PresenceError") =>
                     err'.key # Decl.key
                /\ IF p.ok
                   THEN /\ pc' = "chain"
                        /\ cur'._key = Decl.key
                        /\ cur'._value = p.value
                   ELSE /\ pc' = "failed"
                        /\ err' = p.ex]_vars

\* C2 witness: Required of a sequence member has thrown the PresenceError.
C2_Witness ==
  /\ AccessorFailed
  /\ schema = "VectorValues"
  /\ Root.t = "object"
  /\ err.kind = "PresenceError"
  /\ err.what = "Required key \"values\" not found"

(***************************************************************************)
(* C3.  A present key whose value is not of the expected type (table of    *)
(* section 4.2, the integer being an integer-valued number within the      *)
(* range of int) makes the accessor throw the TypeError 'In <label>,       *)
(* expected <description> for key "<key>"', the description fixed by the   *)
(* target kind; an ill-typed element of a sequence of integers throws it   *)
(* with the description of the element kind; a value that is of the        *)
(* expected type throughout never produces a TypeError.                    *)
(***************************************************************************)
C3_TypeError ==
  (Held /\ AccessorDone) =>
    /\ ~ExpectedType(Decl.T, Node) =>
         AccessorFailed /\ err = TypeErrorFor(Decl.T, Decl.key, self._source)
    /\ (Decl.T = TVector(TInt) /\ Node.t = "array"
          /\ \E i \in 1..Len(Node.a) : ~ExpectedType(TInt, Node.a[i])) =>
         AccessorFailed /\ err = TypeErrorFor(TInt, Decl.key, self._source)
    /\ WellTyped(Decl.T, Node, TRUE) =>
         ~(pc = "failed" /\ err.kind = "TypeError")

\* C3 witness: a string under the key of a nested schema member.
C3_Witness ==
  /\ Held
  /\ AccessorFailed
  /\ schema = "NestedParent"
  /\ Node.t = "string"
  /\ err.what = "In JSON data, expected a JSON object for key \"nested\""

\* C3 as stated: every integer-valued number is of the right type for int.
C3_AsStated ==
  (Held /\ AccessorDone /\ WellTyped(Decl.T, Node, FALSE)) =>
    ~(pc = "failed" /\ err.kind = "TypeError")

(***************************************************************************)
(* C4.  Optional<T>(key, default) on an object node: when the key is       *)
(* absent it returns the field (key, default, label) and raises nothing;   *)
(* when the key is present its outcome is that of Required<T>(key): the    *)
(* document's value, or the TypeError for an ill-typed value, never the    *)
(* default.  The const char* overload behaves alike.                       *)
(***************************************************************************)
C4_Optional ==
  [][((CallOptional \/ CallOptionalCStr) /\ Root.t = "object") =>
       IF Decl.key \notin DOMAIN Root.o
       THEN /\ pc' = "chain"
            /\ cur' = [_key |-> Decl.key, _value |-> Decl.def,
                       _source |-> self._source, T |-> Decl.T]
            /\ err' = NoValue
       ELSE LET r == Required(self, Decl.T, Decl.key)
            IN  /\ IF r.ok
                   THEN pc' = "chain" /\ cur' = r.value
                   ELSE pc' = "failed" /\ err' = r.ex
                /\ ValidValue(Decl.T, Node, TRUE) =>
                     pc' = "chain" /\ Agrees(Decl.T, cur'._value, Node)
                /\ ~ExpectedType(Decl.T, Node) =>
                     /\ pc' = "failed"
                     /\ err' = TypeErrorFor(Decl.T, Decl.key,
                                            self._source)]_vars

\* C4 witness: the default was returned for an absent key.
C4_Witness ==
  /\ pc = "chain"
  /\ schema = "KeyPresenceOptional"
  /\ Root.t = "object"
  /\ "testInt" \notin DOMAIN Root.o
  /\ cur._value = 0

(***************************************************************************)
(* The texts the tests expect for the bounds of the schemas' constraints.  *)
(***************************************************************************)
BoundText(T, b) ==
  CASE T.k = "int" /\ b = 10    -> "10"
    [] T.k = "int" /\ b = 18    -> "18"
    [] T.k = "int" /\ b = 20    -> "20"
    [] T.k = "double" /\ b = 3  -> "1.500000"
    [] T.k = "double" /\ b = 6  -> "3.000000"

ValidationMessage(f, message) ==
  "In " \o f._source \o ", value for key \"" \o f._key \o "\" " \o message

\* The constraint call returned the field unchanged and raised nothing.
Passed ==
  /\ pc' = "chain"
  /\ cur' = cur
  /\ step' = step + 1
  /\ err' = NoValue

FailedWith(what) ==
  /\ pc' = "failed"
  /\ err'.kind = "ValidationError"
  /\ err'.what = what

(***************************************************************************)
(* C5.  WithinRange(min, max) on a field of value v throws if and only if  *)
(* v < min or v > max (v = min and v = max pass), and the message is       *)
(* 'In <label>, value for key "<key>" is outside range <min> to <max>',    *)
(* the same whichever bound was violated.                                  *)
(***************************************************************************)
C5_WithinRange ==
  [][CallWithinRange =>
       IF cur._value < Arg.min \/ cur._value > Arg.max
       THEN FailedWith(ValidationMessage(cur,
              "is outside range " \o BoundText(cur.T, Arg.min) \o " to "
                \o BoundText(cur.T, Arg.max)))
       ELSE Passed]_vars

\* C5 witness: the upper bound was violated, the full range is reported.
C5_Witness ==
  /\ pc = "failed"
  /\ schema = "ValidationRange"
  /\ Held
  /\ Node = JInt(21)
  /\ err.what = "In JSON data, value for key \"testInt\" is outside range 10 to 20"

(***************************************************************************)
(* C6.  AboveMin(min) throws 'In <label>, value for key "<key>" is below   *)
(* minimum of <min>' if and only if v < min; BelowMax(max) throws '... is  *)
(* above maximum of <max>' if and only if v > max; a value equal to the    *)
(* bound passes.                                                           *)
(***************************************************************************)
C6_MinMax ==
  [][/\ CallAboveMin =>
          IF cur._value < Arg.min
          THEN FailedWith(ValidationMessage(cur,
                 "is below minimum of " \o BoundText(cur.T, Arg.min)))
          ELSE Passed
     /\ CallBelowMax =>
          IF cur._value > Arg.max
          THEN FailedWith(ValidationMessage(cur,
                 "is above maximum of " \o BoundText(cur.T, Arg.max)))
          ELSE Passed]_vars

\* C6 witness: a value equal to the maximum has passed BelowMax.
C6_Witness ==
  /\ pc = "chain"
  /\ schema = "ValidationMax"
  /\ step = 2
  /\ cur._value = 10

(***************************************************************************)
(* C7.  MemberOf(permitted) passes if and only if v equals an element of   *)
(* the list (never, when the list is empty); the message is 'In <label>,   *)
(* value for key "<key>" must be one of:' followed by the permitted        *)
(* values in the order given, each preceded by one space.                  *)
(***************************************************************************)
PermittedText(permitted) ==
  CASE permitted = <<1, 2, 3>> -> " 1 2 3"
    [] permitted = <<>>        -> ""

C7_MemberOf ==
  [][CallMemberOf =>
       IF cur._value \in {Arg.permitted[j] : j \in 1..Len(Arg.permitted)}
       THEN Passed
       ELSE FailedWith(ValidationMessage(cur,
              "must be one of:" \o PermittedText(Arg.permitted)))]_vars

\* C7 witness: 4 is not one of 1 2 3.
C7_Witness ==
  /\ pc = "failed"
  /\ schema = "ValidationMemberOf"
  /\ Held
  /\ Node = JInt(4)
  /\ err.what = "In JSON data, value for key \"testValue\" must be one of: 1 2 3"

(***************************************************************************)
(* C8.  File(prefix) passes if and only if the path prefix / value exists; *)
(* otherwise it throws 'In <label>, filename value for key "<key>" does    *)
(* not exist: <resolved path>'.                                            *)
(***************************************************************************)
C8_File ==
  [][CallFile =>
       LET path == ResolvedPath(Arg.prefix, cur._value)
       IN  IF path \in files
           THEN Passed
           ELSE FailedWith("In " \o cur._source
                  \o ", filename value for key \"" \o cur._key
                  \o "\" does not exist: " \o path)]_vars

\* C8 witness: the file exists under the prefix and the check has passed.
C8_Witness ==
  /\ pc = "chain"
  /\ schema = "FilePrefix"
  /\ step = 2
  /\ cur._value = "test.json"
  /\ "dir/test.json" \in files

(***************************************************************************)
(* C9.  The label of the document is the label of every binder derived     *)
(* from it: every constructed nested object carries it, and every          *)
(* diagnostic that names a label names it.                                 *)
(***************************************************************************)
RECURSIVE LabelledBy(_, _, _)
LabelledBy(T, x, label) ==
  CASE T.k = "schema" ->
         /\ x._source = label
         /\ \A i \in 1..Len(Schema(T.name)) :
              LET d == Schema(T.name)[i]
              IN  LabelledBy(d.T, x.m[d.key], label)
    [] T.k \in {"vector", "carray"} ->
         \A i \in 1..Len(x) : LabelledBy(T.e, x[i], label)
    [] OTHER -> TRUE

C9_RootLabelEverywhere ==
  Constructing =>
    /\ (pc = "failed" /\ err.kind \in {"TypeError", "ValidationError"}) =>
         err.source = data._source
    /\ \A i \in DeclIdx :
         Decls[i].key \in DOMAIN members =>
           LabelledBy(Decls[i].T, members[Decls[i].key], data._source)

(***************************************************************************)
(* C10.  A sequence decoded from an array has the array's length, and its  *)
(* i-th element is the decoding of the i-th element of the array: nothing  *)
(* is reordered, dropped or deduplicated.                                  *)
(***************************************************************************)
DecodedInOrder(T, key, x, v) ==
  /\ Len(x) = Len(v.a)
  /\ \A i \in 1..Len(v.a) :
       LET e == ParseValue(T.e, key, v.a[i], self._source)
       IN  /\ e.ok
           /\ x[i] = e.value
           /\ T.e = TInt => x[i] = Denotes(TInt, v.a[i])

C10_SequenceOrder ==
  \A i \in DeclIdx :
    LET d == Decls[i]
    IN  (Constructing /\ pc # "failed" /\ d.T.k = "vector"
           /\ Root.t = "object" /\ d.key \in DOMAIN Root.o) =>
          /\ (pc = "chain" /\ idx = i) =>
               DecodedInOrder(d.T, d.key, cur._value, Root.o[d.key])
          /\ d.key \in DOMAIN members =>
               DecodedInOrder(d.T, d.key, members[d.key], Root.o[d.key])

\* C10 witness: an unsorted array was decoded, in its order.
C10_Witness ==
  /\ pc = "done"
  /\ schema = "VectorValues"
  /\ Root.o["values"] = JArray(<<JInt(2), JInt(1)>>)
  /\ members["values"] = <<2, 1>>

FieldValid(d, o) ==
  IF d.key \in DOMAIN o
  THEN /\ ValidValue(d.T, o[d.key], TRUE)
       /\ ChainSatisfied(Denotes(d.T, o[d.key]), d.chain)
  ELSE /\ ~IsRequired(d)
       /\ ChainSatisfied(d.def, d.chain)

FirstInvalid == Least({i \in DeclIdx : ~FieldValid(Decls[i], Root.o)})

HasFile(d) == \E j \in 1..Len(d.chain) : d.chain[j].c = "File"

\* The value the chain of the current member is applied to.
Applied == IF Decl.key \in DOMAIN Root.o THEN Denotes(Decl.T, Node) ELSE Decl.def

C12_Sequential ==
  (Constructing /\ Root.t = "object") =>
    /\ idx >= 1 /\ idx <= Len(Decls) + 1
    /\ (\E i \in DeclIdx : ~FieldValid(Decls[i], Root.o)) =>
         /\ idx <= FirstInvalid
         /\ pc # "done"
    /\ \A k \in 1..Len(fx) :
         fx[k].e = "exists" =>
           \E j \in DeclIdx : j <= idx /\ HasFile(Decls[j])
    /\ pc = "failed" =>
         /\ idx \in DeclIdx
         /\ idx = FirstInvalid
         /\ \A j \in 1..(idx - 1) : Member(self, Decls[j]).ok
         /\ err = Member(self, Decl).ex
         /\ (Decl.key \notin DOMAIN Root.o) =>
              \/ /\ IsRequired(Decl)
                 /\ err.kind = "PresenceError"
                 /\ err.key = Decl.key
                 /\ step = 0
              \/ /\ ~IsRequired(Decl)
                 /\ err.kind = "ValidationError"
                 /\ step >= 1
         /\ (Decl.key \in DOMAIN Root.o /\ ~ExpectedType(Decl.T, Node)) =>
              err.kind = "TypeError" /\ step = 0
         /\ step >= 1 =>
              /\ err.kind = "ValidationError"
              /\ step \in 1..Len(Decl.chain)
              /\ \A j \in 1..(step - 1) : Satisfies(Applied, Decl.chain[j])
              /\ ~Satisfies(Applied, Decl.chain[step])

\* C12 witness: the first member failed its constraint; the file named by
\* the second member does not exist and was never probed.
C12_Witness ==
  /\ pc = "failed"
  /\ schema = "Sequenced"
  /\ idx = 1
  /\ Root.t = "object"
  /\ DOMAIN Root.o = {"testInt", "file"}
  /\ Root.o["testInt"] = JInt(9)
  /\ Root.o["file"] = JString("test")
  /\ err.what = "In JSON data, value for key \"testInt\" is below minimum of 10"
  /\ fx = <<>>

(***************************************************************************)
(* C13.  A construction ends with the object or with one error, never      *)
(* with both or with a part of the object.  When the constructor has       *)
(* returned, no error is held, every declared member is initialised and    *)
(* agrees with the document, and every member's key, type and constraints  *)
(* were in order.  When it has failed, the caller holds the error and no   *)
(* member (hence no nested object and no sequence) remains; an error       *)
(* raised while a nested object or a sequence element was constructed is   *)
(* the error the caller holds.  While the construction runs no error is    *)
(* held.                                                                   *)
(***************************************************************************)
\* The keys of the root (a null root holds none).
RootKeys == IF Root.t = "object" THEN Root.o ELSE <<>>

\* The error of decoding node v as T under key, by the contract: that of
\* the first element or nested member at fault.
NestedFailure ==
  LET v == Node
      T == Decl.T
  IN  CASE T.k = "schema" /\ v.t = "object" ->
             Construct(T.name, JsonData(v, DefaultSource))
        [] T.k \in {"vector", "carray"} /\ v.t = "array"
             /\ (T.k = "carray" => Len(v.a) <= T.n) ->
             LET bad == {i \in 1..Len(v.a) :
                           ~ParseValue(T.e, Decl.key, v.a[i], self._source).ok}
             IN  IF bad = {} THEN Returned(v, <<>>)
                 ELSE ParseValue(T.e, Decl.key, v.a[Least(bad)], self._source)
        [] OTHER -> Returned(v, <<>>)

Defaulted(i) ==
  /\ Constructing
  /\ Root.t = "object"
  /\ i \in DeclIdx
  /\ ~IsRequired(Decls[i])
  /\ Decls[i].key \notin DOMAIN Root.o

C14_DefaultValidated ==
  /\ Defaulted(idx) =>
       /\ pc = "chain" =>
            /\ cur._value = Decl.def
            /\ \A j \in 1..(step - 1) : Satisfies(Decl.def, Decl.chain[j])
       /\ pc = "failed" =>
            /\ step \in 1..Len(Decl.chain)
            /\ ~Satisfies(Decl.def, Decl.chain[step])
            /\ err.kind = "ValidationError"
            /\ err.key = Decl.key
       /\ ~ChainSatisfied(Decl.def, Decl.chain) => pc \in {"member", "chain", "failed"}
  /\ \A i \in DeclIdx :
       (Defaulted(i) /\ Decls[i].key \in DOMAIN members) =>
         /\ members[Decls[i].key] = Decls[i].def
         /\ ChainSatisfied(Decls[i].def, Decls[i].chain)

\* C14 witness: the default 0 of an absent key was rejected by AboveMin(10).
C14_Witness ==
  /\ pc = "failed"
  /\ schema = "OptionalMin"
  /\ Defaulted(idx)
  /\ err.what = "In JSON data, value for key \"testInt\" is below minimum of 10"

\* C14 as stated: a constraint chained onto an Optional never raises when
\* the key is absent, and the member receives the default.
C14_AsStated ==
  Defaulted(idx) => pc # "failed"

(***************************************************************************)
(* C15.  Every TypeError and every ValidationError of the accessors and    *)
(* constraints of the header begins with 'In <label>, ', the label being   *)
(* that of the binder which raised it (the label of the document, or       *)
(* "JSON data" inside a nested object).  The messages raised while the     *)
(* document is loaded do not: they begin with 'JSON parsing error: ' and   *)
(* 'Could not open JSON file: '; the missing-key message begins with       *)
(* 'Required key "'.                                                       *)
(***************************************************************************)
StartsWith(text, prefix) ==
  Len(text) >= Len(prefix) /\ SubSeq(text, 1, Len(prefix)) = prefix

\* The member being initialised holds nested schema objects.
RECURSIVE HoldsSchema(_)
HoldsSchema(T) ==
  CASE T.k = "schema" -> TRUE
    [] T.k \in {"vector", "carray"} -> HoldsSchema(T.e)
    [] OTHER -> FALSE

C15_Prefixes ==
  pc = "failed" =>
    /\ (err.kind \in {"TypeError", "ValidationError"}
          /\ Decl.acc # "RequiredCArray") =>
         \/ StartsWith(err.what, "In " \o data._source \o ", ")
         \/ /\ HoldsSchema(Decl.T)
            /\ err.key # Decl.key
            /\ StartsWith(err.what, "In JSON data, ")
    /\ err.kind = "ParseError" =>
         StartsWith(err.what, "JSON parsing error: ")
    /\ err.kind = "IOError" =>
         StartsWith(err.what, "Could not open JSON file: ")
    /\ err.kind = "PresenceError" =>
         StartsWith(err.what, "Required key \"")

\* C15 witness: a TypeError on a document loaded from a file.
C15_Witness ==
  /\ pc = "failed"
  /\ schema = "TypeBool"
  /\ err.kind = "TypeError"
  /\ err.what = "In JSON file \"test.json\", expected a boolean value for key \"testBool\""

\* C15 as stated: the messages of the TypeError, the ValidationError, the
\* ParseError and the IOError all begin with 'In <label>, '.
C15_AsStated ==
  (pc = "failed"
     /\ err.kind \in {"TypeError", "ValidationError", "ParseError", "IOError"})
    => StartsWith(err.what, "In ")

(***************************************************************************)
(* C16.  The message of a missing required key is 'Required key "<key>"    *)
(* not found in <label>', the label being that of the document ('Required  *)
(* key "testInt" not found in JSON data' for a document built from a       *)
(* string).                                                                *)
(***************************************************************************)
C16_PresenceMessage ==
  (pc = "failed" /\ err.kind = "PresenceError" /\ Root.t = "object"
     /\ err.key = Decl.key) =>
    err.what = "Required key \"" \o Decl.key \o "\" not found in "
                 \o data._source

(***************************************************************************)
(* C17.  A document is loaded from a file path by opening the file first:  *)
(* when it cannot be opened the outcome is the error 'Could not open JSON  *)
(* file: <path>' and no document; otherwise the content is parsed, the     *)
(* outcome is the error 'JSON parsing error: <diagnostics>' exactly when   *)
(* the parser's diagnostics are not empty, and else the document with the  *)
(* parsed tree and the label 'JSON file "<path>"'.  A document loaded      *)
(* from a string has the label 'JSON data'.                                *)
(***************************************************************************)
\* The step is the outcome the contract prescribes for the text and label.
ParsedAs(text, label) ==
  IF text.errors # ""
  THEN /\ pc' = "failed"
       /\ err'.kind = "ParseError"
       /\ err'.what = "JSON parsing error: " \o text.errors
       /\ data' = NoValue
  ELSE /\ pc' = "loaded"
       /\ err' = NoValue
       /\ data'._root = text.root
       /\ data'._source = label

C17_Loading ==
  [][/\ JsonFile =>
          \E path \in Paths :
            IF path \notin files
            THEN /\ pc' = "failed"
                 /\ err'.kind = "IOError"
                 /\ err'.what = "Could not open JSON file: " \o path
                 /\ data' = NoValue
            ELSE \E text \in Texts(schema) :
                   ParsedAs(text, "JSON file \"" \o path \o "\"")
     /\ JsonString =>
          \E text \in Texts(schema) : ParsedAs(text, "JSON data")
     /\ (pc' = "failed" /\ err'.kind = "IOError") =>
          \E path \in Paths :
            path \notin files /\ err'.what = "Could not open JSON file: " \o path
     /\ (pc' = "loaded" /\ data'._source # "JSON data") =>
          \E path \in files : data'._source = "JSON file \"" \o path \o "\""]_vars

\* C17 witness: the file of the tests' second case could not be opened.
C17_Witness ==
  /\ pc = "failed"
  /\ data = NoValue
  /\ err.what = "Could not open JSON file: not_found.json"

(***************************************************************************)
(* C18.  No binder outlives the document source whose label it refers to:  *)
(* whenever the schema object is alive (under construction or              *)
(* constructed) the JsonData it was constructed from is alive; the label   *)
(* of every nested object stored in a member or held by the field          *)
(* temporary still exists; and whenever a field temporary exists, the      *)
(* JsonData whose label it refers to is alive.                             *)
(***************************************************************************)
\* The label every schema object within the value x of type T refers to
\* still exists.
RECURSIVE SourcesLive(_, _)
SourcesLive(T, x) ==
  CASE T.k = "schema" ->
         /\ x._sourceLive
         /\ \A i \in 1..Len(Schema(T.name)) :
              LET d == Schema(T.name)[i]
              IN  SourcesLive(d.T, x.m[d.key])
    [] T.k \in {"vector", "carray"} ->
         \A i \in 1..Len(x) : SourcesLive(T.e, x[i])
    [] OTHER -> TRUE

C18_NeverOutlives ==
  /\ "json" \in live => "data" \in live
  /\ cur # NoValue => "data" \in live /\ SourcesLive(Decl.T, cur._value)
  /\ \A i \in 1..Len(Schema(schema)) :
       Schema(schema)[i].key \in DOMAIN members =>
         SourcesLive(Schema(schema)[i].T, members[Schema(schema)[i].key])

(***************************************************************************)
(* C19.  Only File has an effect outside its result: every externally      *)
(* observable effect of a construction is a filesystem probe made by a     *)
(* File constraint, nothing is written to an output stream, and the tree   *)
(* and the label of the document are those it was loaded with.             *)
(***************************************************************************)
C19_OnlyFileHasEffects ==
  /\ \A k \in 1..Len(fx) : fx[k].e = "exists"
  /\ Len(fx) > 0 => \E i \in DeclIdx : i <= idx /\ HasFile(Decls[i])
  /\ Constructing => self._root = data._root /\ self._source = data._source

(***************************************************************************)
(* C20.  When a sequence under key K cannot be decoded because of an       *)
(* element, the error names K if the element is not of the element type    *)
(* (a scalar of the wrong type, a nested sequence that is no array or      *)
(* holds such an element at any depth, a nested schema element that is no  *)
(* object): it is the TypeError of that element kind for key K.  A         *)
(* failure inside the construction of a nested schema element names the    *)
(* key of the member of the nested type that is at fault.                  *)
(***************************************************************************)
RECURSIVE FaultKey(_, _, _), FaultKind(_, _)

\* The kind whose type check the node v, decoded as T, fails first; T
\* itself when v is of type T throughout.
FaultKind(T, v) ==
  IF ~ExpectedType(T, v) THEN T
  ELSE IF T.k = "vector"
  THEN LET bad == {i \in 1..Len(v.a) : ~ValidValue(T.e, v.a[i], TRUE)}
       IN  IF bad = {} THEN T ELSE FaultKind(T.e, v.a[Least(bad)])
  ELSE T

\* The key the contract names when node v, decoded as T under key K, is at
\* fault.
FaultKey(T, K, v) ==
  IF ~ExpectedType(T, v) THEN K
  ELSE IF T.k = "vector"
  THEN LET bad == {i \in 1..Len(v.a) : ~ValidValue(T.e, v.a[i], TRUE)}
       IN  FaultKey(T.e, K, v.a[Least(bad)])
  ELSE IF T.k = "schema"
  THEN LET bad == {i \in 1..Len(Schema(T.name)) :
                     ~FieldValid(Schema(T.name)[i], v.o)}
           d == Schema(T.name)[Least(bad)]
       IN  IF d.key \in DOMAIN v.o /\ ValidValue(d.T, v.o[d.key], FALSE)
             /\ d.T.k \in {"schema", "vector"}
           THEN FaultKey(d.T, d.key, v.o[d.key])
           ELSE d.key
  ELSE K

\* The accessor of a sequence member failed on an element of the array.
ElementFailed ==
  /\ Held
  /\ AccessorFailed
  /\ Decl.T.k = "vector"
  /\ Node.t = "array"

C20_ElementKey ==
  ElementFailed =>
    /\ err.key = FaultKey(Decl.T, Decl.key, Node)
    /\ ~HoldsSchema(Decl.T) =>
         /\ err.key = Decl.key
         /\ err = TypeErrorFor(FaultKind(Decl.T, Node), Decl.key,
                               self._source)
    /\ (\E i \in 1..Len(Node.a) :
          /\ ~ExpectedType(Decl.T.e, Node.a[i])
          /\ \A j \in 1..(i - 1) : ValidValue(Decl.T.e, Node.a[j], TRUE)) =>
         err = TypeErrorFor(Decl.T.e, Decl.key, self._source)

\* C20 witness: the second element of the first row is not an integer; the
\* error names the key of the outer sequence.
C20_Witness ==
  /\ ElementFailed
  /\ schema = "Matrix"
  /\ Node.a[1] = JArray(<<JInt(1), JString("x")>>)
  /\ err.what = "In JSON data, expected an integer value for key \"rows\""

\* C20 as stated: whatever the element type, the error names the key of
\* the sequence.
C20_AsStated ==
  ElementFailed => err.key = Decl.key

(***************************************************************************)
(* C21.  A key the object holds with the value null is present: Required   *)
(* and Optional (either overload) called for it throw the TypeError of the *)
(* target kind naming that key, whatever the target kind; no               *)
(* PresenceError is raised, no default is returned and no field is         *)
(* produced.                                                               *)
(***************************************************************************)
\* The member about to be initialised is held by the document as null.
HeldNull == Held /\ pc = "member" /\ Node = JNull

C21_NullIsPresent ==
  [][((CallRequired \/ CallOptional \/ CallOptionalCStr) /\ HeldNull) =>
       /\ pc' = "failed"
       /\ err' = TypeErrorFor(Decl.T, Decl.key, self._source)
       /\ err'.kind = "TypeError" /\ err'.key = Decl.key
       /\ cur' = NoValue
       /\ members' = <<>>]_vars

\* C21 witness: an optional member with a default, held as null, has
\* failed with the TypeError naming its key.
C21_Witness ==
  /\ Held
  /\ AccessorFailed
  /\ Node = JNull
  /\ Decl.acc = "Optional"
  /\ err = TypeErrorFor(Decl.T, Decl.key, self._source)

====
